---- MODULE Spec2Model ----
(***************************************************************************)
(* A model of merge_chunks.py: the chunk merger (merge_with_overlap), the  *)
(* three text rewrites (trim_hyphens, add_header_spacing,                  *)
(* reflow_paragraphs) and the main() pipeline that chains them.            *)
(*                                                                         *)
(* A text is a sequence of one-character strings.  Two specifications are  *)
(* given: Spec runs main() on a list of fragment files; UnitSpec calls the *)
(* three rewrites directly on texts built from a small set of segments.    *)
(***************************************************************************)
EXTENDS Integers, Sequences, FiniteSets, TLC

VARIABLES
    files,      \* main: args.files, the paths in the order the caller gave them
    fs,         \* the file system: path -> text, or Unreadable
    maxCheck,   \* main: args.max_check
    width,      \* main: args.width
    pc,         \* main: where the run stands
    todo,       \* merge_with_overlap: what is left of sorted(paths)
    merged,     \* merge_with_overlap: the accumulator; main: merged
    trimmed,    \* main: trimmed
    spaced,     \* main: spaced
    final,      \* main: final
    output,     \* what was written to args.output or stdout (NotWritten before)
    readLog,    \* history: the paths read so far, in reading order
    prevMerged, \* history: the accumulator before the latest loop iteration
    stages,     \* history: the pipeline stages that have returned, in order
    parts,      \* unit call: the segments the argument is being built from
    arg,        \* unit call: the text passed to the rewrite
    argWidth,   \* unit call: the width passed to reflow_paragraphs
    call,       \* unit call: which rewrite was called ("input" while building arg)
    res         \* unit call: the returned text

vars == <<files, fs, maxCheck, width, pc, todo, merged, trimmed, spaced, final,
          output, readLog, prevMerged, stages, parts, arg, argWidth, call, res>>

mainVars == <<files, fs, maxCheck, width, pc, todo, merged, trimmed, spaced,
              final, output, readLog, prevMerged, stages>>

unitVars == <<parts, arg, argWidth, call, res>>

(***************************************************************************)
(* Characters.                                                             *)
(***************************************************************************)
HY == "-"
CM == "CM"          \* the continuation mark, U+00AC
NL == "\n"
CR == "\r"
SP == " "

IsSpace(c)  == c \in {SP, NL, CR}
IsDigit(c)  == c \in {"0", "1", "2", "3", "4", "5", "6", "7", "8", "9"}
\* [^\d\W]: a word character that is no digit
IsLetter(c) == c \in {"a", "b", "c", "d", "e", "g", "P", "x", "y"}
\* \w
IsWord(c)   == IsLetter(c) \/ IsDigit(c)
\* textwrap's word_punct, [\w!"'&.,?]
IsWordPunct(c) == IsWord(c) \/ c \in {"!", "'", "&", ".", ",", "?"}

(***************************************************************************)
(* Python's string primitives.                                             *)
(***************************************************************************)
Min(a, b) == IF a <= b THEN a ELSE b
Max(a, b) == IF a >= b THEN a ELSE b

\* s[i:j] with 0 <= i, j: the characters at 0-based positions i .. j-1
Slice(s, i, j) == IF j <= i THEN <<>> ELSE SubSeq(s, i + 1, Min(j, Len(s)))

\* s[-n:] for any integer n: a negative index counts from the end, and -0 is 0
LastChars(s, n) ==
    IF n > 0 THEN Slice(s, Max(Len(s) - n, 0), Len(s))
             ELSE Slice(s, Min(0 - n, Len(s)), Len(s))

\* s[:n] for any integer n
FirstChars(s, n) ==
    IF n >= 0 THEN Slice(s, 0, Min(n, Len(s)))
              ELSE Slice(s, 0, Max(Len(s) + n, 0))

\* s[n:] for n >= 0
DropChars(s, n) == Slice(s, n, Len(s))

\* x in s: x anywhere in s, not only at its end
ContainsText(s, x) ==
    \E k \in 0..(Len(s) - Len(x)) : Slice(s, k, k + Len(x)) = x

\* s.endswith(x)
EndsWith(s, x) == Len(x) <= Len(s) /\ Slice(s, Len(s) - Len(x), Len(s)) = x

\* the index after the run of characters satisfying P that starts at 0-based i
RECURSIVE SkipSpace(_, _)
SkipSpace(t, i) ==
    IF i < Len(t) /\ IsSpace(t[i + 1]) THEN SkipSpace(t, i + 1) ELSE i

RECURSIVE SkipHyphens(_, _)
SkipHyphens(t, i) ==
    IF i < Len(t) /\ t[i + 1] = HY THEN SkipHyphens(t, i + 1) ELSE i

RECURSIVE SkipDigits(_, _)
SkipDigits(t, i) ==
    IF i < Len(t) /\ IsDigit(t[i + 1]) THEN SkipDigits(t, i + 1) ELSE i

RECURSIVE SkipNonSpace(_, _)
SkipNonSpace(t, i) ==
    IF i < Len(t) /\ ~IsSpace(t[i + 1]) THEN SkipNonSpace(t, i + 1) ELSE i

RECURSIVE Concat(_)
Concat(ss) == IF ss = <<>> THEN <<>> ELSE Head(ss) \o Concat(Tail(ss))

\* sep.join(ss)
RECURSIVE Join(_, _)
Join(sep, ss) ==
    IF ss = <<>> THEN <<>>
    ELSE IF Len(ss) = 1 THEN ss[1]
    ELSE ss[1] \o sep \o Join(sep, Tail(ss))

(***************************************************************************)
(* merge_with_overlap: one loop iteration.                                 *)
(***************************************************************************)
\* the loop "for i in range(len(head), 0, -1): if tail.endswith(head[:i])":
\* the first i, counting down from n, at which it breaks; 0 when it never does
RECURSIVE OverlapFrom(_, _, _)
OverlapFrom(tail, head, n) ==
    IF n <= 0 THEN 0
    ELSE IF EndsWith(tail, FirstChars(head, n)) THEN n
    ELSE OverlapFrom(tail, head, n - 1)

\* a search that counts up instead, and so stops at the shortest overlap
RECURSIVE ShortestOverlapFrom(_, _, _)
ShortestOverlapFrom(tail, head, n) ==
    IF n > Len(head) THEN 0
    ELSE IF EndsWith(tail, FirstChars(head, n)) THEN n
    ELSE ShortestOverlapFrom(tail, head, n + 1)

OverlapShortest(acc, text, mc) ==
    ShortestOverlapFrom(LastChars(acc, mc), FirstChars(text, mc), 1)

\* the number of characters the loop body strips from the front of text
Overlap(acc, text, mc) ==
    LET tail == LastChars(acc, mc)
        head == FirstChars(text, mc)
    IN  OverlapFrom(tail, head, Len(head))

\* an iteration that puts a line break between the accumulator and the fragment
MergeOneWithBreak(acc, text, mc) ==
    IF acc = <<>> THEN text
    ELSE acc \o <<NL>> \o DropChars(text, Overlap(acc, text, mc))

\* the body of the loop after the read: the new value of merged
MergeOne(acc, text, mc) ==
    IF acc = <<>> THEN text
    ELSE acc \o DropChars(text, Overlap(acc, text, mc))

(***************************************************************************)
(* trim_hyphens.                                                           *)
(***************************************************************************)
\* re.sub(r'[-CM]\n', '', text), scanning from 0-based position i
RECURSIVE JoinBrokenFrom(_, _)
JoinBrokenFrom(t, i) ==
    IF i >= Len(t) THEN <<>>
    ELSE IF t[i + 1] \in {HY, CM} /\ i + 1 < Len(t) /\ t[i + 2] = NL
         THEN JoinBrokenFrom(t, i + 2)
         ELSE <<t[i + 1]>> \o JoinBrokenFrom(t, i + 1)

\* the same substitution with the continuation mark left out of the class
RECURSIVE JoinHyphenOnlyFrom(_, _)
JoinHyphenOnlyFrom(t, i) ==
    IF i >= Len(t) THEN <<>>
    ELSE IF t[i + 1] = HY /\ i + 1 < Len(t) /\ t[i + 2] = NL
         THEN JoinHyphenOnlyFrom(t, i + 2)
         ELSE <<t[i + 1]>> \o JoinHyphenOnlyFrom(t, i + 1)

JoinHyphenOnly(text) == JoinHyphenOnlyFrom(text, 0)

\* the first rewrite: text = re.sub(r'[-CM]\n', '', text)
JoinBroken(text) == JoinBrokenFrom(text, 0)

\* re.sub(r'CM\s*', '', text), scanning from 0-based position i
RECURSIVE StripMarksFrom(_, _)
StripMarksFrom(t, i) ==
    IF i >= Len(t) THEN <<>>
    ELSE IF t[i + 1] = CM THEN StripMarksFrom(t, SkipSpace(t, i + 1))
    ELSE <<t[i + 1]>> \o StripMarksFrom(t, i + 1)

\* the second rewrite: re.sub(r'CM\s*', '', text)
StripMarks(text) == StripMarksFrom(text, 0)

trim_hyphens(text) == StripMarks(JoinBroken(text))

(***************************************************************************)
(* add_header_spacing: re.sub(r'^(--- Page \d+ --+)(\r?\n)?', r'\1\n\n',   *)
(* text, flags=re.MULTILINE).                                              *)
(***************************************************************************)
PagePrefix == <<"-", "-", "-", " ", "P", "a", "g", "e", " ">>
TrailStart == <<" ", "-", "-">>

\* '^' without re.MULTILINE: the start of the text only
AtTextStart(t, i) == i = 0

\* '^' in MULTILINE mode at 0-based position i
AtLineStart(t, i) == i = 0 \/ t[i] = NL

\* the 0-based end of group 1 of a match that starts at i, or -1 when the
\* pattern does not match there
MarkerEnd(t, i) ==
    IF ~AtLineStart(t, i) \/ Slice(t, i, i + Len(PagePrefix)) # PagePrefix THEN -1
    ELSE LET j == i + Len(PagePrefix)
             k == SkipDigits(t, j)
         IN  IF k = j \/ Slice(t, k, k + Len(TrailStart)) # TrailStart THEN -1
             ELSE SkipHyphens(t, k + Len(TrailStart))

\* the end of the optional group 2, (\r?\n)?, tried at e
NewlineEnd(t, e) ==
    IF Slice(t, e, e + 2) = <<CR, NL>> THEN e + 2
    ELSE IF Slice(t, e, e + 1) = <<NL>> THEN e + 1
    ELSE e

RECURSIVE HeaderSubFrom(_, _)
HeaderSubFrom(t, i) ==
    IF i >= Len(t) THEN <<>>
    ELSE LET e == MarkerEnd(t, i)
         IN  IF e >= 0
             THEN Slice(t, i, e) \o <<NL, NL>> \o HeaderSubFrom(t, NewlineEnd(t, e))
             ELSE <<t[i + 1]>> \o HeaderSubFrom(t, i + 1)

add_header_spacing(text) == HeaderSubFrom(text, 0)

(***************************************************************************)
(* reflow_paragraphs.                                                      *)
(***************************************************************************)
\* the default of --width
DefaultWidth == 9999

\* the 1-based position of the last non-space character of t after lo, or lo
RECURSIVE SkipSpaceBack(_, _, _)
SkipSpaceBack(t, j, lo) ==
    IF j > lo /\ IsSpace(t[j]) THEN SkipSpaceBack(t, j - 1, lo) ELSE j

\* the text as it is, white space at its ends kept
NoStrip(t) == t

\* text.strip()
Strip(t) ==
    LET i == SkipSpace(t, 0)
    IN  Slice(t, i, SkipSpaceBack(t, Len(t), i))

RECURSIVE BackToNewline(_, _, _)
BackToNewline(t, j, lo) ==
    IF j > lo /\ t[j] # NL THEN BackToNewline(t, j - 1, lo) ELSE j

\* the 0-based end of the match of \n\s*\n at i, where t[i] is a line break:
\* \s* is greedy and gives back down to the last line break of the run; -1
\* when the run of white space holds no second line break
ParaBreakEnd(t, i) ==
    LET j == BackToNewline(t, SkipSpace(t, i + 1), i + 1)
    IN  IF j > i + 1 THEN j ELSE -1

\* re.split(r'\n\s*\n', t) from position i, cur being the piece so far
RECURSIVE SplitParasFrom(_, _, _)
SplitParasFrom(t, i, cur) ==
    IF i >= Len(t) THEN <<cur>>
    ELSE LET e == IF t[i + 1] = NL THEN ParaBreakEnd(t, i) ELSE -1
         IN  IF e >= 0 THEN <<cur>> \o SplitParasFrom(t, e, <<>>)
             ELSE SplitParasFrom(t, i + 1, Append(cur, t[i + 1]))

SplitParas(t) == SplitParasFrom(t, 0, <<>>)

\* p.split(), from position i
RECURSIVE WordsFrom(_, _)
WordsFrom(t, i) ==
    LET a == SkipSpace(t, i)
        b == SkipNonSpace(t, a)
    IN  IF a >= Len(t) THEN <<>> ELSE <<Slice(t, a, b)>> \o WordsFrom(t, b)

Words(t) == WordsFrom(t, 0)

\* ---- textwrap.TextWrapper.wordsep_re, on a text whose only white space is
\* ---- single spaces
\* the second alternative, (?<=wp) -{2,} (?=\w), at p: its end, or -1
EmDashAt(t, p) ==
    LET e == SkipHyphens(t, p)
    IN  IF p > 0 /\ IsWordPunct(t[p]) /\ e - p >= 2 /\ e < Len(t) /\ IsWord(t[e + 1])
        THEN e ELSE -1

\* the hyphenated-word branch with its hyphen at q:
\* -(?: (?<=lt{2}-) | (?<=lt-lt-)) (?= lt -? lt)
HyphBreak(t, q) ==
    /\ q < Len(t)
    /\ t[q + 1] = HY
    /\ \/ q >= 2 /\ IsLetter(t[q]) /\ IsLetter(t[q - 1])
       \/ q >= 3 /\ IsLetter(t[q]) /\ t[q - 1] = HY /\ IsLetter(t[q - 2])
    /\ q + 1 < Len(t)
    /\ IsLetter(t[q + 2])
    /\ \/ q + 2 < Len(t) /\ IsLetter(t[q + 3])
       \/ q + 3 < Len(t) /\ t[q + 3] = HY /\ IsLetter(t[q + 4])

\* the third alternative at p, its lazy nws+? having taken k characters: the
\* end of the chunk
RECURSIVE WordEnd(_, _, _)
WordEnd(t, p, k) ==
    LET q == p + k
        e == SkipHyphens(t, q)
    IN  IF HyphBreak(t, q) THEN q + 1
        ELSE IF q >= Len(t) \/ t[q + 1] = SP THEN q
        ELSE IF IsWordPunct(t[q]) /\ e - q >= 2 /\ e < Len(t) /\ IsWord(t[e + 1]) THEN q
        ELSE WordEnd(t, p, k + 1)

RECURSIVE SkipBlanks(_, _)
SkipBlanks(t, i) ==
    IF i < Len(t) /\ t[i + 1] = SP THEN SkipBlanks(t, i + 1) ELSE i

\* TextWrapper._split: the chunks of t from position p
RECURSIVE ChunksFrom(_, _)
ChunksFrom(t, p) ==
    IF p >= Len(t) THEN <<>>
    ELSE LET e == IF t[p + 1] = SP THEN SkipBlanks(t, p)
                  ELSE IF EmDashAt(t, p) >= 0 THEN EmDashAt(t, p)
                  ELSE WordEnd(t, p, 1)
         IN  <<Slice(t, p, e)>> \o ChunksFrom(t, e)

Chunks(t) == ChunksFrom(t, 0)

\* chunk.strip() == ''
IsBlank(c) == \A i \in 1..Len(c) : IsSpace(c[i])

\* chunk.rfind('-', 0, end), searching down from 0-based h
RECURSIVE RFindHyphen(_, _)
RFindHyphen(c, h) ==
    IF h >= 0 /\ c[h + 1] # HY THEN RFindHyphen(c, h - 1) ELSE h

\* _handle_long_word: where the chunk, too long for any line, is cut when
\* space_left columns remain on the current line
BreakAt(chunk, space_left) ==
    LET hyphen == RFindHyphen(chunk, Min(space_left, Len(chunk)) - 1)
    IN  IF /\ Len(chunk) > space_left
           /\ hyphen > 0
           /\ \E i \in 1..hyphen : chunk[i] # HY
        THEN hyphen + 1 ELSE space_left

\* how many of the chunks ch fit on a line that holds cl columns already
RECURSIVE TakeFitting(_, _, _, _)
TakeFitting(ch, n, cl, w) ==
    IF n < Len(ch) /\ cl + Len(ch[n + 1]) <= w
    THEN TakeFitting(ch, n + 1, cl + Len(ch[n + 1]), w) ELSE n

\* TextWrapper._wrap_chunks for w > 0: one pass of its outer loop per call
RECURSIVE WrapChunks(_, _, _)
WrapChunks(ch, lines, w) ==
    IF ch = <<>> THEN lines
    ELSE LET ch1   == IF IsBlank(ch[1]) /\ lines # <<>> THEN Tail(ch) ELSE ch
             n     == TakeFitting(ch1, 0, 0, w)
             cur   == SubSeq(ch1, 1, n)
             rest  == SubSeq(ch1, n + 1, Len(ch1))
             long  == rest # <<>> /\ Len(rest[1]) > w
             end   == BreakAt(rest[1], w - Len(Concat(cur)))
             cur2  == IF long THEN Append(cur, FirstChars(rest[1], end)) ELSE cur
             rest2 == IF long THEN <<DropChars(rest[1], end)>> \o Tail(rest) ELSE rest
             cur3  == IF cur2 # <<>> /\ IsBlank(cur2[Len(cur2)])
                      THEN SubSeq(cur2, 1, Len(cur2) - 1) ELSE cur2
             out   == IF cur3 # <<>> THEN Append(lines, Concat(cur3)) ELSE lines
         IN  WrapChunks(rest2, out, w)

\* textwrap.fill(single, width=w), w > 0
Fill(single, w) == Join(<<NL>>, WrapChunks(Chunks(single), <<>>, w))

\* one paragraph: ' '.join(p.split()), then textwrap.fill
ReflowOne(p, w) == Fill(Join(<<SP>>, Words(p)), w)

\* reflow_paragraphs(text, width) for width > 0; textwrap raises ValueError
\* for any other width
reflow_paragraphs(text, w) ==
    LET paras == SplitParas(Strip(text))
    IN  Join(<<NL, NL>>, [k \in 1..Len(paras) |-> ReflowOne(paras[k], w)])

(***************************************************************************)
(* Bounds and inputs.                                                      *)
(***************************************************************************)
MaxFiles    == 2    \* at most this many fragment files on the command line
MaxCheckTop == 3    \* --max-check ranges over -1 .. MaxCheckTop
MaxSegs     == 4    \* a unit-call argument is at most this many segments

\* a path is its rank in the sort order of sorted(paths)
Paths == 1..MaxFiles

\* page markers with three and with two trailing hyphens
Marker3 == PagePrefix \o <<"3", " ", "-", "-", "-">>
Marker2 == PagePrefix \o <<"3", " ", "-", "-">>

\* the fragment texts a file may hold
FragSet == { <<>>, <<"a">>, <<"a", "a">>, <<"a", "b">>, <<"b", "a">>,
             <<"a", HY, NL>>, Marker3 }

FileStates == [ok : {TRUE}, text : FragSet] \cup {[ok |-> FALSE, text |-> <<>>]}

\* the command lines: one to MaxFiles distinct paths, in any order
RECURSIVE Orderings(_)
Orderings(n) ==
    IF n = 0 THEN {<<>>}
    ELSE Orderings(n - 1) \cup
         { Append(o, p) : o \in { x \in Orderings(n - 1) : Len(x) = n - 1 },
                          p \in Paths } 

Distinct(o) == \A i, j \in 1..Len(o) : i # j => o[i] # o[j]

FileLists == { o \in Orderings(MaxFiles) : o # <<>> /\ Distinct(o) }

CheckValues == {-1} \cup (0..MaxCheckTop)
WidthValues == {-1, 0, 2, DefaultWidth}

\* the segments a unit-call argument is built from
Segments == { <<"a">>, <<"a", "b", "c">>, <<SP>>, <<NL>>, <<HY>>, <<CM>>, Marker3,
              Marker2 }
UnitWidths == {2, 5, DefaultWidth}

(***************************************************************************)
(* main(): the pipeline.                                                   *)
(***************************************************************************)
\* sorted(paths), by insertion
RECURSIVE Insert(_, _)
Insert(p, s) ==
    IF s = <<>> THEN <<p>>
    ELSE IF p <= Head(s) THEN <<p>> \o s
    ELSE <<Head(s)>> \o Insert(p, Tail(s))

\* the paths left in the order the caller gave them
Unsorted(paths) == paths

RECURSIVE Sorted(_)
Sorted(paths) ==
    IF paths = <<>> THEN <<>> ELSE Insert(Head(paths), Sorted(Tail(paths)))

UnitIdle ==
    /\ parts = <<>>
    /\ arg = <<>>
    /\ argWidth = 0
    /\ call = "none"
    /\ res = <<>>

\* the state once argparse has parsed the command line
Init ==
    /\ files \in FileLists
    /\ fs \in [{files[i] : i \in 1..Len(files)} -> FileStates]
    /\ maxCheck \in CheckValues
    /\ width \in WidthValues
    /\ pc = "start"
    /\ todo = <<>>
    /\ merged = <<>>
    /\ trimmed = <<>>
    /\ spaced = <<>>
    /\ final = <<>>
    /\ output = <<>>
    /\ readLog = <<>>
    /\ prevMerged = <<>>
    /\ stages = <<>>
    /\ UnitIdle

\* main calls merge_with_overlap, which sorts the paths
Start ==
    /\ pc = "start"
    /\ pc' = "merge"
    /\ todo' = Sorted(files)
    /\ UNCHANGED <<files, fs, maxCheck, width, merged, trimmed, spaced, final,
                   output, readLog, prevMerged, stages>>
    /\ UNCHANGED unitVars

\* one iteration of the loop whose read_text succeeds; after the last one
\* merge_with_overlap returns merged
ReadAndMerge ==
    /\ pc = "merge"
    /\ todo # <<>>
    /\ fs[Head(todo)].ok
    /\ prevMerged' = merged
    /\ merged' = MergeOne(merged, fs[Head(todo)].text, maxCheck)
    /\ readLog' = Append(readLog, Head(todo))
    /\ todo' = Tail(todo)
    /\ pc' = IF Tail(todo) = <<>> THEN "trim" ELSE "merge"
    /\ stages' = IF Tail(todo) = <<>> THEN Append(stages, "merge_with_overlap")
                  ELSE stages
    /\ UNCHANGED <<files, fs, maxCheck, width, trimmed, spaced, final, output>>
    /\ UNCHANGED unitVars

\* a loop that skips a file it cannot read and goes on
ReadSkips ==
    /\ pc = "merge"
    /\ todo # <<>>
    /\ ~fs[Head(todo)].ok
    /\ todo' = Tail(todo)
    /\ pc' = IF Tail(todo) = <<>> THEN "trim" ELSE "merge"
    /\ UNCHANGED <<files, fs, maxCheck, width, merged, trimmed, spaced, final,
                   output, readLog, prevMerged, stages>>
    /\ UNCHANGED unitVars

\* read_text raises: the exception leaves merge_with_overlap and main
ReadFails ==
    /\ pc = "merge"
    /\ todo # <<>>
    /\ ~fs[Head(todo)].ok
    /\ pc' = "failed"
    /\ UNCHANGED <<files, fs, maxCheck, width, todo, merged, trimmed, spaced, final,
                   output, readLog, prevMerged, stages>>
    /\ UNCHANGED unitVars

\* a pipeline whose hyphen repair is left out: trimmed is merged as it stands
TrimSkipped ==
    /\ pc = "trim"
    /\ trimmed' = merged
    /\ stages' = Append(stages, "trim_hyphens")
    /\ pc' = "space"
    /\ UNCHANGED <<files, fs, maxCheck, width, todo, merged, spaced, final, output,
                   readLog, prevMerged>>
    /\ UNCHANGED unitVars

Trim ==
    /\ pc = "trim"
    /\ trimmed' = trim_hyphens(merged)
    /\ stages' = Append(stages, "trim_hyphens")
    /\ pc' = "space"
    /\ UNCHANGED <<files, fs, maxCheck, width, todo, merged, spaced, final, output,
                   readLog, prevMerged>>
    /\ UNCHANGED unitVars

Space ==
    /\ pc = "space"
    /\ spaced' = add_header_spacing(trimmed)
    /\ stages' = Append(stages, "add_header_spacing")
    /\ pc' = "reflow"
    /\ UNCHANGED <<files, fs, maxCheck, width, todo, merged, trimmed, final, output,
                   readLog, prevMerged>>
    /\ UNCHANGED unitVars

\* a pipeline that wraps at two columns whatever --width says
ReflowNarrow ==
    /\ pc = "reflow"
    /\ width > 0
    /\ final' = reflow_paragraphs(spaced, 2)
    /\ stages' = Append(stages, "reflow_paragraphs")
    /\ pc' = "write"
    /\ UNCHANGED <<files, fs, maxCheck, width, todo, merged, trimmed, spaced, output,
                   readLog, prevMerged>>
    /\ UNCHANGED unitVars

Reflow ==
    /\ pc = "reflow"
    /\ width > 0
    /\ final' = reflow_paragraphs(spaced, width)
    /\ stages' = Append(stages, "reflow_paragraphs")
    /\ pc' = "write"
    /\ UNCHANGED <<files, fs, maxCheck, width, todo, merged, trimmed, spaced, output,
                   readLog, prevMerged>>
    /\ UNCHANGED unitVars

\* textwrap raises ValueError("invalid width") inside reflow_paragraphs
ReflowFails ==
    /\ pc = "reflow"
    /\ width <= 0
    /\ pc' = "failed"
    /\ UNCHANGED <<files, fs, maxCheck, width, todo, merged, trimmed, spaced, final,
                   output, readLog, prevMerged, stages>>
    /\ UNCHANGED unitVars

\* args.output.write_text(final) or sys.stdout.buffer.write(final)
Write ==
    /\ pc = "write"
    /\ output' = Append(output, final)
    /\ pc' = "done"
    /\ UNCHANGED <<files, fs, maxCheck, width, todo, merged, trimmed, spaced, final,
                   readLog, prevMerged, stages>>
    /\ UNCHANGED unitVars

Next ==
    \/ Start
    \/ ReadAndMerge
    \/ ReadFails
    \/ Trim
    \/ Space
    \/ Reflow
    \/ ReflowFails
    \/ Write

Spec == Init /\ [][Next]_vars

(***************************************************************************)
(* Unit calls of the three rewrites.                                       *)
(***************************************************************************)
MainIdle ==
    /\ files = <<>>
    /\ fs = <<>>
    /\ maxCheck = 0
    /\ width = 0
    /\ pc = "idle"
    /\ todo = <<>>
    /\ merged = <<>>
    /\ trimmed = <<>>
    /\ spaced = <<>>
    /\ final = <<>>
    /\ output = <<>>
    /\ readLog = <<>>
    /\ prevMerged = <<>>
    /\ stages = <<>>

UnitInit ==
    /\ MainIdle
    /\ parts = <<>>
    /\ arg = <<>>
    /\ argWidth = 0
    /\ call = "input"
    /\ res = <<>>

AppendSegment ==
    /\ call = "input"
    /\ Len(parts) < MaxSegs
    /\ \E s \in Segments : parts' = Append(parts, s)
    /\ UNCHANGED <<arg, argWidth, call, res>>
    /\ UNCHANGED mainVars

CallTrimHyphens ==
    /\ call = "input"
    /\ arg' = Concat(parts)
    /\ res' = trim_hyphens(arg')
    /\ call' = "trim_hyphens"
    /\ UNCHANGED <<parts, argWidth>>
    /\ UNCHANGED mainVars

CallAddHeaderSpacing ==
    /\ call = "input"
    /\ arg' = Concat(parts)
    /\ res' = add_header_spacing(arg')
    /\ call' = "add_header_spacing"
    /\ UNCHANGED <<parts, argWidth>>
    /\ UNCHANGED mainVars

CallReflowParagraphs ==
    /\ call = "input"
    /\ arg' = Concat(parts)
    /\ \E w \in UnitWidths :
         /\ argWidth' = w
         /\ res' = reflow_paragraphs(arg', w)
    /\ call' = "reflow_paragraphs"
    /\ UNCHANGED parts
    /\ UNCHANGED mainVars

UnitNext ==
    \/ AppendSegment
    \/ CallTrimHyphens
    \/ CallAddHeaderSpacing
    \/ CallReflowParagraphs

UnitSpec == UnitInit /\ [][UnitNext]_vars

(***************************************************************************)
(* Properties of main() and merge_with_overlap, checked under Spec.        *)
(***************************************************************************)
Range(q) == { q[i] : i \in 1..Len(q) }

RECURSIVE SumLen(_)
SumLen(ps) == IF ps = <<>> THEN 0 ELSE Len(fs[Head(ps)].text) + SumLen(Tail(ps))

SetMax(S) == CHOOSE x \in S : \A y \in S : y <= x

\* the fragment merged by the latest loop iteration
LastFragment == fs[readLog[Len(readLog)]].text

\* the final min(n, length) characters of acc
Window(acc, n) == SubSeq(acc, Len(acc) - Min(n, Len(acc)) + 1, Len(acc))

\* the lengths i at which the first i characters of frag are the last i
\* characters of the window of acc
OverlapLengths(acc, frag, n) ==
    LET w == Window(acc, n)
    IN  { i \in 1..Min(n, Len(frag)) :
            /\ i <= Len(w)
            /\ SubSeq(frag, 1, i) = SubSeq(w, Len(w) - i + 1, Len(w)) }

\* C1: with a positive max_check, a loop iteration drops from the front of the
\* fragment exactly the largest i, 1 <= i <= min(max_check, len(fragment)), whose
\* first i characters are the last i characters of the accumulator's final
\* min(max_check, len(accumulator)) characters, and appends the fragment whole
\* when there is no such i.
C1_LongestOverlapDropped ==
    (readLog # <<>> /\ maxCheck > 0) =>
        LET c == OverlapLengths(prevMerged, LastFragment, maxCheck)
            d == IF c = {} THEN 0 ELSE SetMax(c)
        IN  merged = prevMerged \o SubSeq(LastFragment, d + 1, Len(LastFragment))

C1_Witness ==
    /\ Len(readLog) = 2
    /\ maxCheck > 0
    /\ Cardinality(OverlapLengths(prevMerged, LastFragment, maxCheck)) >= 2
    /\ Len(merged) = Len(prevMerged)

\* C2: after every loop iteration, and for every max_check, the accumulator is
\* no longer than the fragments read so far taken together.
C2_LengthBound == Len(merged) <= SumLen(readLog)

C2_Witness ==
    /\ pc = "trim"
    /\ Len(readLog) = 2
    /\ maxCheck < 0
    /\ Len(merged) < SumLen(readLog)

\* C3 as stated: the fragments are read in the order the caller gave them.
C3_CallerOrder == \A k \in 1..Len(readLog) : readLog[k] = files[k]

\* C3 amended: the fragments are read in ascending order of their paths,
\* whatever order the caller gave them in; the first path in that order seeds
\* the accumulator verbatim.
C3_SortedOrder ==
    /\ \A i, j \in 1..Len(readLog) : i < j => readLog[i] < readLog[j]
    /\ \A p \in Range(readLog), q \in Range(files) \ Range(readLog) : p < q
    /\ Len(readLog) = 1 => merged = fs[readLog[1]].text

C3_Witness ==
    /\ files = <<2, 1>>
    /\ readLog = <<1, 2>>
    /\ fs[1].text # fs[2].text
    /\ pc = "trim"

\* C9 as stated: a max_check or a width that is zero or negative is rejected
\* before anything is read, before any stage runs and before anything is
\* written.
C9_RejectedBeforeProcessing ==
    (maxCheck <= 0 \/ width <= 0) =>
        readLog = <<>> /\ stages = <<>> /\ output = <<>>

\* C10: when some file of the command line cannot be read, the run never gets
\* past the merge and writes nothing; whatever is written comes from a run
\* that read every file.
C10_NoPartialOutput ==
    /\ (\E p \in Range(files) : ~fs[p].ok) =>
           output = <<>> /\ pc \in {"start", "merge", "failed"}
    /\ output # <<>> => Range(readLog) = Range(files)

C10_Witness ==
    /\ pc = "failed"
    /\ readLog # <<>>
    /\ merged # <<>>
    /\ \E p \in Range(files) : ~fs[p].ok
    /\ output = <<>>

(***************************************************************************)
(* Properties of the three rewrites, checked under UnitSpec.               *)
(***************************************************************************)
\* the page-marker pattern at 0-based i, wherever i lies in its line: the end
\* of the marker, or -1
MarkerTextEnd(t, i) ==
    IF Slice(t, i, i + Len(PagePrefix)) # PagePrefix THEN -1
    ELSE LET j == i + Len(PagePrefix)
             k == SkipDigits(t, j)
         IN  IF k = j \/ Slice(t, k, k + Len(TrailStart)) # TrailStart THEN -1
             ELSE SkipHyphens(t, k + Len(TrailStart))

\* the same with three or more trailing hyphens, the form "--- Page N ---"
PageMarkerEnd(t, i) ==
    LET e == MarkerTextEnd(t, i)
    IN  IF e >= 0 /\ Slice(t, e - 3, e) = <<HY, HY, HY>> THEN e ELSE -1

HasMarker(t) == \E i \in 0..(Len(t) - 1) : PageMarkerEnd(t, i) >= 0

IsMarker(t) == t # <<>> /\ PageMarkerEnd(t, 0) = Len(t)

\* every marker of t stands at the start of a line
MarkersStartLines(t) ==
    \A i \in 0..(Len(t) - 1) : MarkerTextEnd(t, i) >= 0 => AtLineStart(t, i)

\* every marker line of t is followed by a blank line already
MarkersSpaced(t) ==
    \A i \in 0..(Len(t) - 1) :
        MarkerEnd(t, i) >= 0 =>
            Slice(t, MarkerEnd(t, i), MarkerEnd(t, i) + 2) = <<NL, NL>>

\* the pieces of t between its blank lines (t holds no other white-space run
\* with two line breaks)
RECURSIVE ParagraphsFrom(_, _, _)
ParagraphsFrom(t, i, cur) ==
    IF i >= Len(t) THEN <<cur>>
    ELSE IF Slice(t, i, i + 2) = <<NL, NL>>
         THEN <<cur>> \o ParagraphsFrom(t, i + 2, <<>>)
         ELSE ParagraphsFrom(t, i + 1, Append(cur, t[i + 1]))

Paragraphs(t) == ParagraphsFrom(t, 0, <<>>)

\* C4 as stated: reflow_paragraphs applied to its own output, with the same
\* width, changes nothing.
C4_ReflowIdempotent ==
    call = "reflow_paragraphs" => reflow_paragraphs(res, argWidth) = res

\* C5 as stated: add_header_spacing returns a text whose markers are all
\* followed by a blank line unchanged, and applied to its own output changes
\* nothing.
C5_HeaderSpacingIdempotent ==
    call = "add_header_spacing" =>
        /\ MarkersSpaced(arg) => res = arg
        /\ add_header_spacing(res) = res

\* C6 as stated: after add_header_spacing and reflow_paragraphs no paragraph
\* holds a page marker together with other text, whatever preceded the marker
\* line in the input.
C6_MarkerIsolated ==
    (call = "add_header_spacing" /\ MarkersStartLines(arg)) =>
        LET out == Paragraphs(reflow_paragraphs(res, DefaultWidth))
        IN  \A k \in 1..Len(out) : HasMarker(out[k]) => IsMarker(out[k])

\* C7 as stated: trim_hyphens applied to its own output changes nothing, and
\* neither does either of its two rewrites.
C7_TrimIdempotent ==
    call = "trim_hyphens" =>
        /\ trim_hyphens(res) = res
        /\ JoinBroken(JoinBroken(arg)) = JoinBroken(arg)
        /\ StripMarks(StripMarks(arg)) = StripMarks(arg)

\* the 1-based positions of t that hold a hyphen right before a line break
HyphenBreaks(t) == { p \in 1..(Len(t) - 1) : t[p] = HY /\ t[p + 1] = NL }

\* C8: wherever the text holds a hyphen right before a line break, putting the
\* continuation mark in its place gives the same trim_hyphens output, and in
\* that output the hyphen and the line break are gone: what stood before them
\* and what stood after them are rewritten and set side by side.
C8_MarkLikeHyphen ==
    call = "trim_hyphens" =>
        \A p \in HyphenBreaks(arg) :
            /\ trim_hyphens([arg EXCEPT ![p] = CM]) = res
            /\ res = StripMarks(JoinBroken(SubSeq(arg, 1, p - 1)) \o
                                JoinBroken(SubSeq(arg, p + 2, Len(arg))))

C8_Witness ==
    /\ call = "trim_hyphens"
    /\ arg = <<"a", HY, NL, "a", "b", "c">>
    /\ res = <<"a", "a", "b", "c">>
    /\ trim_hyphens(<<"a", CM, NL, "a", "b", "c">>) = res

(***************************************************************************)
(* Properties of the whole pipeline, checked under Spec.                   *)
(***************************************************************************)
StageOrder ==
    <<"merge_with_overlap", "trim_hyphens", "add_header_spacing", "reflow_paragraphs">>

Returned(stage) == \E k \in 1..Len(stages) : stages[k] = stage

\* a text of letters only
IsPlainWord(t) == \A i \in 1..Len(t) : IsLetter(t[i])

\* t ends with a hyphen and a line break after a word half
EndsBroken(t) ==
    /\ Len(t) >= 3
    /\ t[Len(t) - 1] = HY
    /\ t[Len(t)] = NL
    /\ IsPlainWord(SubSeq(t, 1, Len(t) - 2))

\* C11: the stages return in the order merge_with_overlap, trim_hyphens,
\* add_header_spacing, reflow_paragraphs, each once and each applied to the
\* whole output of the one before; trim_hyphens runs after every file has been
\* merged, so a word broken by a hyphen and a line break at the end of one
\* fragment and continued at the start of the next is joined in the output.
C11_PipelineOrder ==
    /\ stages = SubSeq(StageOrder, 1, Len(stages))
    /\ pc = "done" => stages = StageOrder /\ output = <<final>>
    /\ Returned("merge_with_overlap") =>
           todo = <<>> /\ Range(readLog) = Range(files)
    /\ Returned("trim_hyphens") => trimmed = trim_hyphens(merged)
    /\ Returned("add_header_spacing") => spaced = add_header_spacing(trimmed)
    /\ Returned("reflow_paragraphs") => final = reflow_paragraphs(spaced, width)
    /\ ( /\ pc = "done"
         /\ width = DefaultWidth
         /\ Len(readLog) = 2
         /\ EndsBroken(fs[readLog[1]].text)
         /\ fs[readLog[2]].text # <<>>
         /\ IsPlainWord(fs[readLog[2]].text) )
       => output[1] = SubSeq(fs[readLog[1]].text, 1, Len(fs[readLog[1]].text) - 2)
                      \o fs[readLog[2]].text

C11_Witness ==
    /\ pc = "done"
    /\ width = DefaultWidth
    /\ Len(readLog) = 2
    /\ fs[readLog[1]].text = <<"a", HY, NL>>
    /\ fs[readLog[2]].text = <<"b", "a">>
    /\ merged = <<"a", HY, NL, "b", "a">>
    /\ output = <<<<"a", "b", "a">>>>

\* no fragment read holds a page marker "--- Page N ---"
NoMarkerFragment == \A k \in 1..Len(readLog) : ~HasMarker(fs[readLog[k]].text)

\* no line of t is one that add_header_spacing rewrites
NoMatchedLine(t) == \A i \in 0..(Len(t) - 1) : MarkerEnd(t, i) < 0

\* every paragraph of t, with its white space collapsed, fits in w columns
ParagraphsFit(t, w) ==
    \A p \in Range(SplitParas(Strip(t))) : Len(Join(<<SP>>, Words(p))) <= w

\* C12 as stated: without page markers, for every positive max_check and
\* every positive width, the output is no longer than the fragments together.
C12_FinalLengthBound ==
    (pc \in {"write", "done"} /\ maxCheck > 0 /\ width > 0 /\ NoMarkerFragment)
    => Len(final) <= SumLen(readLog)

\* C12 amended: when the merged and trimmed text has no line that
\* add_header_spacing rewrites, max_check is positive and every collapsed
\* paragraph fits in the width, no stage adds a character and the output is
\* no longer than the fragments together.
C12_LengthBoundWhenFitting ==
    (maxCheck > 0 /\ NoMatchedLine(trimmed))
    => /\ Returned("trim_hyphens") => Len(trimmed) <= Len(merged)
       /\ Returned("add_header_spacing") => Len(spaced) = Len(trimmed)
       /\ (Returned("reflow_paragraphs") /\ ParagraphsFit(spaced, width))
          => /\ Len(final) <= Len(spaced)
             /\ Len(final) <= SumLen(readLog)

C12_Witness ==
    /\ pc = "done"
    /\ maxCheck = 1
    /\ width = DefaultWidth
    /\ Len(readLog) = 2
    /\ fs[readLog[1]].text = <<"a", HY, NL>>
    /\ fs[readLog[2]].text = <<"a", "b">>
    /\ Len(final) = 3
    /\ SumLen(readLog) = 5

(***************************************************************************)
(* Properties of add_header_spacing and reflow_paragraphs, checked under   *)
(* UnitSpec.                                                               *)
(***************************************************************************)
\* 0-based position i of t starts a line
StartsLine(t, i) == i = 0 \/ t[i] = NL

\* the line starting at i begins with hyphens, " Page ", a decimal number, a
\* space and at least minTrail hyphens; the leading hyphens number exactly
\* three when exact holds and three or more otherwise
MarkerLineAt(t, i, exact, minTrail) ==
    LET h == SkipHyphens(t, i)
        j == h + 6
        k == SkipDigits(t, j)
    IN  /\ StartsLine(t, i)
        /\ IF exact THEN h - i = 3 ELSE h - i >= 3
        /\ Slice(t, h, j) = <<" ", "P", "a", "g", "e", " ">>
        /\ k > j
        /\ Slice(t, k, k + 1) = <<SP>>
        /\ SkipHyphens(t, k + 1) - (k + 1) >= minTrail

\* C13 as stated: add_header_spacing changes the text exactly when some line
\* begins with three or more hyphens, " Page ", a number and three or more
\* hyphens.
C13_MarkerLinesChanged ==
    call = "add_header_spacing"
    => (res # arg <=> \E i \in 0..(Len(arg) - 1) : MarkerLineAt(arg, i, FALSE, 3))

\* C13 amended: add_header_spacing changes the text exactly when some line,
\* anywhere in the text, begins with exactly three hyphens, " Page ", a number
\* and two or more hyphens; a text with no such line is returned unchanged.
C13_MatchedLinesChanged ==
    call = "add_header_spacing"
    => (res # arg <=> \E i \in 0..(Len(arg) - 1) : MarkerLineAt(arg, i, TRUE, 2))

C13_Witness ==
    /\ call = "add_header_spacing"
    /\ parts = << <<"a">>, <<NL>>, Marker2 >>
    /\ res = arg \o <<NL, NL>>

\* the maximal runs of non-space characters of t, from 1-based position i
RECURSIVE TokensFrom(_, _, _)
TokensFrom(t, i, cur) ==
    LET done == IF cur = <<>> THEN <<>> ELSE <<cur>>
    IN  IF i > Len(t) THEN done
        ELSE IF IsSpace(t[i]) THEN done \o TokensFrom(t, i + 1, <<>>)
        ELSE TokensFrom(t, i + 1, Append(cur, t[i]))

Tokens(t) == TokensFrom(t, 1, <<>>)

\* for each run of white space between two tokens of t, whether it holds a
\* blank line (two line breaks or more) and so separates paragraphs
RECURSIVE BreaksFrom(_, _, _, _)
BreaksFrom(t, i, nls, started) ==
    IF i > Len(t) THEN <<>>
    ELSE IF IsSpace(t[i])
         THEN BreaksFrom(t, i + 1, nls + (IF t[i] = NL THEN 1 ELSE 0), started)
         ELSE (IF started /\ IsSpace(t[i - 1]) THEN <<nls >= 2>> ELSE <<>>)
              \o BreaksFrom(t, i + 1, 0, TRUE)

Breaks(t) == BreaksFrom(t, 1, 0, FALSE)

\* every white space of r is a single space between two words or one of the
\* two line breaks of a single blank line between two words
WellSpaced(r) ==
    \A i \in 1..Len(r) :
        IsSpace(r[i]) =>
            \/ /\ r[i] = SP
               /\ 1 < i /\ i < Len(r)
               /\ ~IsSpace(r[i - 1]) /\ ~IsSpace(r[i + 1])
            \/ /\ r[i] = NL
               /\ 1 < i /\ i + 1 < Len(r)
               /\ r[i + 1] = NL
               /\ ~IsSpace(r[i - 1]) /\ ~IsSpace(r[i + 2])
            \/ /\ r[i] = NL
               /\ 2 < i /\ i < Len(r)
               /\ r[i - 1] = NL
               /\ ~IsSpace(r[i - 2]) /\ ~IsSpace(r[i + 1])

\* C14: with a width no collapsed paragraph exceeds, reflow_paragraphs returns
\* the words of its argument with each paragraph on one line, single spaces
\* between its words, exactly one blank line between paragraphs, no empty
\* paragraph and no white space at either end.
C14_OneLinePerParagraph ==
    (call = "reflow_paragraphs" /\ ParagraphsFit(arg, argWidth))
    => /\ WellSpaced(res)
       /\ Tokens(res) = Tokens(arg)
       /\ Breaks(res) = Breaks(arg)

C14_Witness ==
    /\ call = "reflow_paragraphs"
    /\ argWidth = 5
    /\ parts = << <<NL>>, <<"a">>, <<NL>>, <<"a", "b", "c">> >>
    /\ res = <<"a", SP, "a", "b", "c">>

(***************************************************************************)
(* merge_with_overlap keeps the content of every fragment, checked under   *)
(* Spec.                                                                   *)
(***************************************************************************)
IsPrefixOf(x, s) == Len(x) <= Len(s) /\ SubSeq(s, 1, Len(x)) = x

IsSuffixOf(x, s) == Len(x) <= Len(s) /\ SubSeq(s, Len(s) - Len(x) + 1, Len(s)) = x

OccursIn(x, s) == \E k \in 0..(Len(s) - Len(x)) : SubSeq(s, k + 1, k + Len(x)) = x

\* C15: after each loop iteration, for every max_check, the accumulator's
\* previous value is a prefix of its new value and the fragment just merged is
\* a suffix of it; every fragment read so far occurs in the accumulator.
C15_NoContentLost ==
    readLog # <<>>
    => /\ IsPrefixOf(prevMerged, merged)
       /\ IsSuffixOf(LastFragment, merged)
       /\ \A k \in 1..Len(readLog) : OccursIn(fs[readLog[k]].text, merged)

C15_Witness ==
    /\ pc = "trim"
    /\ Len(readLog) = 2
    /\ prevMerged = <<"a", "b">>
    /\ LastFragment = <<"b", "a">>
    /\ merged = <<"a", "b", "a">>

====
